---- MODULE Spec2Model ----
(***************************************************************************)
(* Model of src/src/use/base.ts (v-calendar): createBase's computed values *)
(* disabledDates, availableDates and disabledAttribute, the context it     *)
(* provides, and useBase.                                                  *)
(*                                                                         *)
(* Instants are integers, milliseconds since the epoch (Date.getTime()).   *)
(* Arrays are objects with identity: a list lives in `heap` under an id,   *)
(* and Array.prototype.push changes the heap entry in place.               *)
(* An optional value (an absent prop, a null range end) is the empty       *)
(* sequence; a present value v is <<v>>. A list prop that is present holds *)
(* the id of the array the parent passed.                                  *)
(***************************************************************************)
EXTENDS Integers, Sequences, FiniteSets, TLC

VARIABLES props, heap, disabledDates, availableDates, disabledAttribute,
          provides, useResult

vars == <<props, heap, disabledDates, availableDates, disabledAttribute,
          provides, useResult>>

----------------------------------------------------------------------------
(* Bounds of the model *)

\* Calendar days are numbered 0..MaxDay.
MaxDay == 1

\* The disabledDates and availableDates props hold at most MaxLen specs.
MaxLen == 1

Days == 0..MaxDay

----------------------------------------------------------------------------
(* Values *)

null == <<>>
Some(v) == <<v>>

\* JavaScript truthiness of an optional Date prop: a Date object is truthy,
\* undefined/null is falsy.
Truthy(p) == p # null

\* "HH:MM:SS" as milliseconds after the start of the day.
ParseTime(h, m, s) == ((h * 60 + m) * 60 + s) * 1000

DayMs == 24 * 60 * 60 * 1000

\* A date-like value: a calendar day and, optionally, an explicit time of
\* day in milliseconds.
DateValue(d, t) == [day |-> d, time |-> t]

\* Locale.normalizeDate(d, { time }): the instant of a date-like value; the
\* given time of day is applied when the value carries none.
normalizeDate(d, time) ==
    d.day * DayMs + (IF d.time # null THEN d.time[1]
                     ELSE IF time # null THEN time[1]
                     ELSE 0)

startOfDay(t) == (t \div DayMs) * DayMs
endOfDay(t) == (t \div DayMs) * DayMs + ParseTime(23, 59, 59)

IsRangeSpec(s) == "start" \in DOMAIN s

\* One date spec to one DateRange. A single date is the range from it to
\* itself; isAllDay snaps the ends to the start and the end of their days.
normalizeSpec(s, isAllDay) ==
    LET a == IF IsRangeSpec(s) THEN normalizeDate(s.start, null)
                               ELSE normalizeDate(s, null)
        b == IF IsRangeSpec(s) THEN normalizeDate(s.end, null)
                               ELSE normalizeDate(s, null)
    IN  IF isAllDay
        THEN [start |-> Some(startOfDay(a)), end |-> Some(endOfDay(b))]
        ELSE [start |-> Some(a), end |-> Some(b)]

\* Locale.normalizeDates(specs, { isAllDay }): the list of ranges of a list
\* of specs; an absent list gives the empty list.
normalizeDates(specs, isAllDay) ==
    IF specs = null THEN <<>>
    ELSE [i \in 1..Len(specs[1]) |-> normalizeSpec(specs[1][i], isAllDay)]

----------------------------------------------------------------------------
(* The heap of arrays *)

\* Array ids. A new array takes an id nothing refers to; the arrays of the
\* two computed values are drawn from two pools, each large enough to hold
\* the array in use and the one being built.
DisabledPool == {1, 2}
AvailablePool == {3, 4}

\* The arrays the parent passes as the disabledDates and availableDates
\* props.
PropArray == [disabledDates |-> 5, availableDates |-> 6]

ListIds == DisabledPool \cup AvailablePool
               \cup {PropArray.disabledDates, PropArray.availableDates}

\* The array a prop refers to, if the prop is present.
Deref(h, ref) == IF ref = null THEN null ELSE Some(h[ref[1]])

\* The arrays something still refers to.
Live(dd, ad, attr, p) ==
    {dd, ad, attr.dates, attr.excludeDates}
    \cup {r[1] : r \in {p.disabledDates, p.availableDates} \ {null}}

\* A new array: an id of the pool that nothing refers to.
NewId(pool, used) == CHOOSE i \in pool \ used : \A j \in pool \ used : i <= j

\* Array.prototype.push
push(h, id, x) == [h EXCEPT ![id] = Append(@, x)]

\* Garbage collection: an array nothing refers to is gone.
Collect(h, live) == [i \in ListIds |-> IF i \in live THEN h[i] ELSE <<>>]

----------------------------------------------------------------------------
(* createBase: the computed values *)

\* Variant: the min range is added only for the plain minDate.
hasMinPlainOnly(p) == Truthy(p.minDate)

hasMin(p) == Truthy(p.minDateExact) \/ Truthy(p.minDate)

\* Variant: the plain minDate is resolved at the end of its day.
minEndEndOfDay(p) ==
    IF Truthy(p.minDateExact)
    THEN normalizeDate(p.minDateExact[1], null)
    ELSE normalizeDate(p.minDate[1], Some(ParseTime(23, 59, 59)))

minEnd(p) ==
    IF Truthy(p.minDateExact)
    THEN normalizeDate(p.minDateExact[1], null)
    ELSE normalizeDate(p.minDate[1], Some(ParseTime(0, 0, 0)))

\* Variant: the min range ends at the boundary instant itself.
minRangeNoBackoff(p) == [start |-> null, end |-> Some(minEnd(p))]

minRange(p) == [start |-> null, end |-> Some(minEnd(p) - 1000)]

hasMax(p) == Truthy(p.maxDateExact) \/ Truthy(p.maxDate)

\* Variant: the plain maxDate takes precedence over maxDateExact.
maxStartPlainFirst(p) ==
    IF Truthy(p.maxDate)
    THEN normalizeDate(p.maxDate[1], Some(ParseTime(23, 59, 59)))
    ELSE normalizeDate(p.maxDateExact[1], null)

maxStart(p) ==
    IF Truthy(p.maxDateExact)
    THEN normalizeDate(p.maxDateExact[1], null)
    ELSE normalizeDate(p.maxDate[1], Some(ParseTime(23, 59, 59)))

\* Variant: the max range starts at the boundary instant itself.
maxRangeNoBackoff(p) == [start |-> Some(maxStart(p)), end |-> null]

maxRange(p) == [start |-> Some(maxStart(p) + 1000), end |-> null]

\* Variant: a boundary range is pushed whether or not the boundary is
\* supplied, with a null end in place of the missing boundary.
computeDisabledDatesUnguarded(h, p, used) ==
    LET dates == NewId(DisabledPool, used)
        h0 == [h EXCEPT ![dates] = normalizeDates(Deref(h, p.disabledDates), TRUE)]
        h1 == push(h0, dates,
                   [start |-> null,
                    end |-> IF hasMin(p) THEN Some(minEnd(p) - 1000) ELSE null])
        h2 == push(h1, dates,
                   [start |-> IF hasMax(p) THEN Some(maxStart(p) + 1000) ELSE null,
                    end |-> null])
    IN  [heap |-> h2, value |-> dates]

\* Variant: the array is built once and kept; a later run pushes its ranges
\* onto the array of the earlier run.
computeDisabledDatesCached(h, p, used) ==
    LET kept == DisabledPool \cap used
        dates == IF kept = {} THEN NewId(DisabledPool, used)
                 ELSE CHOOSE i \in kept : TRUE
        h0 == IF kept = {}
              THEN [h EXCEPT ![dates] = normalizeDates(Deref(h, p.disabledDates), TRUE)]
              ELSE h
        h1 == IF hasMin(p) THEN push(h0, dates, minRange(p)) ELSE h0
        h2 == IF hasMax(p) THEN push(h1, dates, maxRange(p)) ELSE h1
    IN  [heap |-> h2, value |-> dates]

\* The disabledDates computed: the heap after it ran and the array it
\* returns. normalizeDates returns a new array `dates`; the synthesized
\* ranges are pushed onto that array.
computeDisabledDates(h, p, used) ==
    LET dates == NewId(DisabledPool, used)
        h0 == [h EXCEPT ![dates] = normalizeDates(Deref(h, p.disabledDates), TRUE)]
        h1 == IF hasMin(p) THEN push(h0, dates, minRange(p)) ELSE h0
        h2 == IF hasMax(p) THEN push(h1, dates, maxRange(p)) ELSE h1
    IN  [heap |-> h2, value |-> dates]

\* Variant: the available dates are normalized as all-day ranges.
computeAvailableDatesAllDay(h, p, used) ==
    LET dates == NewId(AvailablePool, used)
    IN  [heap |-> [h EXCEPT ![dates] = normalizeDates(Deref(h, p.availableDates), TRUE)],
         value |-> dates]

\* The availableDates computed.
computeAvailableDates(h, p, used) ==
    LET dates == NewId(AvailablePool, used)
    IN  [heap |-> [h EXCEPT ![dates] = normalizeDates(Deref(h, p.availableDates), FALSE)],
         value |-> dates]

\* Variant: the two lists are passed the wrong way round.
computeDisabledAttributeSwapped(dd, ad) ==
    [key |-> "disabled", dates |-> ad, excludeDates |-> dd,
     excludeMode |-> "includes", order |-> 100]

\* The disabledAttribute computed: new Attribute({...}, theme, locale).
computeDisabledAttribute(dd, ad) ==
    [key |-> "disabled", dates |-> dd, excludeDates |-> ad,
     excludeMode |-> "includes", order |-> 100]

----------------------------------------------------------------------------
(* provide / inject *)

contextKey == "__vc_base_context__"

\* The context object of createBase: references to its computed values.
context ==
    [theme |-> "theme", locale |-> "locale", masks |-> "masks",
     disabledDates |-> "disabledDates", availableDates |-> "availableDates",
     disabledAttribute |-> "disabledAttribute"]

\* Where useBase is called: in a component below the one that called
\* createBase, or in a component that is not.
Scopes == {"nested", "outside"}

\* provide(key, value) in the component that calls createBase: the components
\* below it see the value under the key.
provide(pr, key, value) ==
    [pr EXCEPT !["nested"] = [k \in DOMAIN @ \cup {key} |->
                                IF k = key THEN value ELSE @[k]]]

\* inject(key) in a scope: what was provided under the key, or undefined.
inject(scope, key) ==
    IF key \in DOMAIN provides[scope] THEN Some(provides[scope][key]) ELSE null

MissingMessage ==
    "Base context missing. Please verify this component is nested within a valid context provider."

\* Variant: a missing context is replaced by a default one.
useBaseDefaulting(scope) ==
    LET ctx == inject(scope, contextKey)
    IN  IF Truthy(ctx)
        THEN [scope |-> scope, returned |-> ctx, thrown |-> null]
        ELSE [scope |-> scope, returned |-> Some([theme |-> "theme"]),
              thrown |-> null]

useBase(scope) ==
    LET ctx == inject(scope, contextKey)
    IN  IF Truthy(ctx)
        THEN [scope |-> scope, returned |-> ctx, thrown |-> null]
        ELSE [scope |-> scope, returned |-> null, thrown |-> Some(MissingMessage)]

----------------------------------------------------------------------------
(* Inputs *)

NoProps ==
    [minDate |-> null, minDateExact |-> null, maxDate |-> null,
     maxDateExact |-> null, disabledDates |-> null, availableDates |-> null]

\* Plain boundary dates: a day, no time of day.
PlainDates == {DateValue(d, null) : d \in Days}

\* Exact boundary dates, around the day boundaries.
ExactTimes == {0, 500, 1000, ParseTime(23, 59, 59), ParseTime(23, 59, 59) + 500}
ExactDates == {DateValue(d, Some(t)) : d \in Days, t \in ExactTimes}
FewExactDates ==
    {DateValue(0, Some(ParseTime(23, 59, 59) + 500)), DateValue(1, Some(500))}

\* Date specs of the list props: a timed date, and a timed range over two
\* days.
DateSpecs ==
    {DateValue(0, Some(ParseTime(12, 0, 0))),
     [start |-> DateValue(0, Some(ParseTime(9, 0, 0))),
      end |-> DateValue(1, Some(ParseTime(17, 0, 0)))]}

RECURSIVE SeqsUpTo(_, _)
SeqsUpTo(S, n) ==
    IF n = 0 THEN {<<>>}
    ELSE LET shorter == SeqsUpTo(S, n - 1)
         IN  shorter \cup {Append(q, x) : q \in shorter, x \in S}

SpecLists == SeqsUpTo(DateSpecs, MaxLen)

Optional(S) == {null} \cup {Some(v) : v \in S}

----------------------------------------------------------------------------
(* Initial state: createBase(props) has run in the providing component *)

Init ==
    /\ props = NoProps
    /\ LET d == computeDisabledDates([i \in ListIds |-> <<>>], NoProps, {})
           a == computeAvailableDates(d.heap, NoProps, {d.value})
       IN  /\ heap = a.heap
           /\ disabledDates = d.value
           /\ availableDates = a.value
           /\ disabledAttribute = computeDisabledAttribute(d.value, a.value)
    /\ provides = provide([s \in Scopes |-> <<>>], contextKey, context)
    /\ useResult = null

----------------------------------------------------------------------------
(* Reactive updates *)

\* The disabledDates computed runs again on heap h, and with it
\* disabledAttribute, which reads it.
RefreshDisabled(h, p) ==
    LET d == computeDisabledDates(h, p,
                 Live(disabledDates, availableDates, disabledAttribute, p))
        attr == computeDisabledAttribute(d.value, availableDates)
    IN  /\ disabledDates' = d.value
        /\ disabledAttribute' = attr
        /\ heap' = Collect(d.heap, Live(d.value, availableDates, attr, p))
        /\ UNCHANGED availableDates

\* The availableDates computed runs again, and with it disabledAttribute.
RefreshAvailable(h, p) ==
    LET a == computeAvailableDates(h, p,
                 Live(disabledDates, availableDates, disabledAttribute, p))
        attr == computeDisabledAttribute(disabledDates, a.value)
    IN  /\ availableDates' = a.value
        /\ disabledAttribute' = attr
        /\ heap' = Collect(a.heap, Live(disabledDates, a.value, attr, p))
        /\ UNCHANGED disabledDates

\* Every computed runs again (its locale dependency changed).
RefreshAll(h, p) ==
    LET used == Live(disabledDates, availableDates, disabledAttribute, p)
        d == computeDisabledDates(h, p, used)
        a == computeAvailableDates(d.heap, p, used \cup {d.value})
        attr == computeDisabledAttribute(d.value, a.value)
    IN  /\ disabledDates' = d.value
        /\ availableDates' = a.value
        /\ disabledAttribute' = attr
        /\ heap' = Collect(a.heap, Live(d.value, a.value, attr, p))

\* The parent passes a boundary prop (a Date object, or nothing). The
\* disabledDates computed is re-run when it read the prop in its last run:
\* the exact variant always, the plain variant only when the exact one was
\* falsy.
SetMinDateExact(v) ==
    /\ props' = [props EXCEPT !.minDateExact = v]
    /\ RefreshDisabled(heap, props')
    /\ UNCHANGED <<provides, useResult>>

SetMinDate(v) ==
    /\ props' = [props EXCEPT !.minDate = v]
    /\ IF Truthy(props.minDateExact)
       THEN UNCHANGED <<heap, disabledDates, availableDates, disabledAttribute>>
       ELSE RefreshDisabled(heap, props')
    /\ UNCHANGED <<provides, useResult>>

SetMaxDateExact(v) ==
    /\ props' = [props EXCEPT !.maxDateExact = v]
    /\ RefreshDisabled(heap, props')
    /\ UNCHANGED <<provides, useResult>>

SetMaxDate(v) ==
    /\ props' = [props EXCEPT !.maxDate = v]
    /\ IF Truthy(props.maxDateExact)
       THEN UNCHANGED <<heap, disabledDates, availableDates, disabledAttribute>>
       ELSE RefreshDisabled(heap, props')
    /\ UNCHANGED <<provides, useResult>>

\* The parent passes a list prop: an array of date specs, or nothing.
PassList(name, v) ==
    [props |-> [props EXCEPT ![name] = IF v = null THEN null
                                       ELSE Some(PropArray[name])],
     heap |-> [heap EXCEPT ![PropArray[name]] = IF v = null THEN <<>> ELSE v[1]]]

SetDisabledDates(v) ==
    LET passed == PassList("disabledDates", v)
    IN  /\ props' = passed.props
        /\ RefreshDisabled(passed.heap, passed.props)
        /\ UNCHANGED <<provides, useResult>>

SetAvailableDates(v) ==
    LET passed == PassList("availableDates", v)
    IN  /\ props' = passed.props
        /\ RefreshAvailable(passed.heap, passed.props)
        /\ UNCHANGED <<provides, useResult>>

\* The locale computed gives a new Locale (a locale, masks, firstDayOfWeek or
\* timezone prop was passed again); the date props are as they were.
LocaleChanged ==
    /\ RefreshAll(heap, props)
    /\ UNCHANGED <<props, provides, useResult>>

\* A component calls useBase().
UseBase(scope) ==
    /\ useResult' = Some(useBase(scope))
    /\ UNCHANGED <<props, heap, disabledDates, availableDates,
                   disabledAttribute, provides>>

----------------------------------------------------------------------------
(* Specifications *)

\* Every date prop changes; few exact boundary instants.
Next ==
    \/ \E v \in Optional(PlainDates) : SetMinDate(v)
    \/ \E v \in Optional(FewExactDates) : SetMinDateExact(v)
    \/ \E v \in Optional(PlainDates) : SetMaxDate(v)
    \/ \E v \in Optional(FewExactDates) : SetMaxDateExact(v)
    \/ \E v \in Optional(SpecLists) : SetDisabledDates(v)
    \/ \E v \in Optional(SpecLists) : SetAvailableDates(v)
    \/ LocaleChanged

Spec == Init /\ [][Next]_vars

\* The boundary props change, over every exact instant around the day
\* boundaries; the list props stay absent.
NextBoundary ==
    \/ \E v \in Optional(PlainDates) : SetMinDate(v)
    \/ \E v \in Optional(ExactDates) : SetMinDateExact(v)
    \/ \E v \in Optional(PlainDates) : SetMaxDate(v)
    \/ \E v \in Optional(ExactDates) : SetMaxDateExact(v)

SpecBoundary == Init /\ [][NextBoundary]_vars

\* Components call useBase while the providing component's props change.
NextContext ==
    \/ \E s \in Scopes : UseBase(s)
    \/ \E v \in Optional(PlainDates) : SetMinDate(v)
    \/ \E v \in Optional(PlainDates) : SetMaxDate(v)
    \/ \E v \in Optional(SpecLists) : SetDisabledDates(v)
    \/ LocaleChanged

SpecContext == Init /\ [][NextContext]_vars

----------------------------------------------------------------------------
(* Ranges, days and the attribute's meaning *)

\* An instant is inside a range: both ends count, a null end is open.
InRange(t, r) ==
    /\ (r.start = null \/ r.start[1] <= t)
    /\ (r.end = null \/ t <= r.end[1])

\* A calendar day falls inside a range: the range holds an instant of it.
DayInRange(d, r) ==
    /\ (r.start = null \/ r.start[1] <= d * DayMs + DayMs - 1)
    /\ (r.end = null \/ d * DayMs <= r.end[1])

DayInSome(d, list) == \E i \in 1..Len(list) : DayInRange(d, list[i])

\* Attribute with excludeMode "includes": a day is rendered with the
\* attribute when it is inside some range of dates and inside no range of
\* excludeDates.
RenderedDisabled(attr, d) ==
    /\ DayInSome(d, heap[attr.dates])
    /\ ~(attr.excludeMode = "includes" /\ DayInSome(d, heap[attr.excludeDates]))

----------------------------------------------------------------------------
(* What the claims speak of *)

DisabledList == heap[disabledDates]
AvailableList == heap[availableDates]

MinSupplied == props.minDate # null \/ props.minDateExact # null
MaxSupplied == props.maxDate # null \/ props.maxDateExact # null

\* The arrays of the list props.
DisabledProp == Deref(heap, props.disabledDates)
AvailableProp == Deref(heap, props.availableDates)

\* The number of user-supplied disabled specs.
UserCount == IF DisabledProp = null THEN 0 ELSE Len(DisabledProp[1])

\* The places of the synthesized ranges in the list.
MinIndex == UserCount + 1
MaxIndex == UserCount + (IF MinSupplied THEN 2 ELSE 1)

\* The instant m of the minimum boundary: the exact instant if supplied,
\* else 00:00:00 of the plain day.
MinInstant ==
    IF props.minDateExact # null
    THEN props.minDateExact[1].day * DayMs + props.minDateExact[1].time[1]
    ELSE props.minDate[1].day * DayMs

\* The instant x of the maximum boundary: the exact instant if supplied,
\* else 23:59:59 of the plain day.
MaxInstant ==
    IF props.maxDateExact # null
    THEN props.maxDateExact[1].day * DayMs + props.maxDateExact[1].time[1]
    ELSE props.maxDate[1].day * DayMs + 86399000

\* Instants around the two boundaries, a quarter of a second apart.
ProbeInstants ==
    {c + k * 250 : c \in {MinInstant, MaxInstant}, k \in (0 - 12)..12}

\* The days of the model and the days next to them.
ProbeDays == (0 - 1)..(MaxDay + 2)

BothSupplied == MinSupplied /\ MaxSupplied /\ Len(DisabledList) = UserCount + 2

\* The two synthesized ranges share an instant.
SynthesizedOverlap ==
    \E t \in {DisabledList[MinIndex].end[1], DisabledList[MaxIndex].start[1]} :
        InRange(t, DisabledList[MinIndex]) /\ InRange(t, DisabledList[MaxIndex])

----------------------------------------------------------------------------
(* C1 *)

\* C1: the published disabledDates list is the normalized (all-day) form of
\* the disabledDates prop, then one range open at its start iff minDate or
\* minDateExact is supplied, then one range open at its end iff maxDate or
\* maxDateExact is supplied, and nothing else.
C1_Composition ==
    LET user == normalizeDates(DisabledProp, TRUE)
    IN  /\ Len(DisabledList) = Len(user) + (IF MinSupplied THEN 1 ELSE 0)
                                         + (IF MaxSupplied THEN 1 ELSE 0)
        /\ Len(user) = UserCount
        /\ \A i \in 1..UserCount : DisabledList[i] = user[i]
        /\ MinSupplied => /\ DisabledList[MinIndex].start = null
                          /\ DisabledList[MinIndex].end # null
        /\ MaxSupplied => /\ DisabledList[MaxIndex].start # null
                          /\ DisabledList[MaxIndex].end = null
        /\ (~MinSupplied /\ ~MaxSupplied) => DisabledList = user

\* A user-supplied range followed by both synthesized ranges, the minimum
\* given by minDateExact alone.
C1_Witness ==
    /\ UserCount = 1
    /\ props.minDate = null /\ props.minDateExact # null
    /\ props.maxDate # null
    /\ Len(DisabledList) = 3

----------------------------------------------------------------------------
(* C2 *)

\* C2: when a minimum boundary is supplied, the synthesized min range is
\* { start: null, end: m - 1 second }, m being minDateExact's instant if it
\* is supplied and else 00:00:00 of minDate; m is not inside that range,
\* and with only a minimum boundary configured m is in no disabled range.
C2_MinRange ==
    MinSupplied =>
        /\ Len(DisabledList) >= MinIndex
        /\ DisabledList[MinIndex] = [start |-> null, end |-> Some(MinInstant - 1000)]
        /\ ~InRange(MinInstant, DisabledList[MinIndex])
        /\ (~MaxSupplied /\ props.disabledDates = null) =>
               \A i \in 1..Len(DisabledList) : ~InRange(MinInstant, DisabledList[i])

\* minDate and minDateExact both supplied and resolving to different
\* instants: the range ends one second before the exact one.
C2_Witness ==
    /\ props.minDate # null /\ props.minDateExact # null
    /\ props.minDate[1].day * DayMs # MinInstant
    /\ ~MaxSupplied
    /\ DisabledList = <<[start |-> null, end |-> Some(MinInstant - 1000)]>>

----------------------------------------------------------------------------
(* C3 *)

\* C3: when a maximum boundary is supplied, the synthesized max range is
\* { start: x + 1 second, end: null }, x being maxDateExact's instant if it
\* is supplied and else 23:59:59 of maxDate; x is not inside that range.
C3_MaxRange ==
    MaxSupplied =>
        /\ Len(DisabledList) >= MaxIndex
        /\ DisabledList[MaxIndex] = [start |-> Some(MaxInstant + 1000), end |-> null]
        /\ ~InRange(MaxInstant, DisabledList[MaxIndex])

\* maxDate and maxDateExact both supplied and resolving to different
\* instants: the range starts one second after the exact one.
C3_Witness ==
    /\ props.maxDate # null /\ props.maxDateExact # null
    /\ props.maxDate[1].day * DayMs + 86399000 # MaxInstant
    /\ DisabledList[MaxIndex].start = Some(MaxInstant + 1000)

----------------------------------------------------------------------------
(* C4 *)

\* C4 as stated: when the minimum resolves strictly later than the maximum,
\* every instant lies in the synthesized min range or in the synthesized max
\* range.
C4_UnionCoversAll ==
    (BothSupplied /\ MinInstant > MaxInstant) =>
        \A t \in ProbeInstants :
            InRange(t, DisabledList[MinIndex]) \/ InRange(t, DisabledList[MaxIndex])

\* C4 amended: when the minimum resolves strictly later than the maximum,
\* the instants in neither synthesized range are exactly those strictly
\* between m - 1 second and x + 1 second (none when m is two seconds or more
\* after x), and every calendar day holds an instant of one of the two
\* ranges.
C4_UnionCoversAllButGap ==
    (BothSupplied /\ MinInstant > MaxInstant) =>
        /\ \A t \in ProbeInstants :
              (InRange(t, DisabledList[MinIndex]) \/ InRange(t, DisabledList[MaxIndex]))
              <=> ~(MinInstant - 1000 < t /\ t < MaxInstant + 1000)
        /\ MinInstant >= MaxInstant + 2000 =>
              \A t \in ProbeInstants :
                  InRange(t, DisabledList[MinIndex]) \/ InRange(t, DisabledList[MaxIndex])
        /\ \A d \in ProbeDays :
              DayInRange(d, DisabledList[MinIndex]) \/ DayInRange(d, DisabledList[MaxIndex])

\* minDate is the day after maxDate: the half second after 23:59:59 of the
\* maximum day is in neither range.
C4_Witness ==
    /\ BothSupplied
    /\ props.minDateExact = null /\ props.maxDateExact = null
    /\ MinInstant = MaxInstant + 1000
    /\ ~InRange(MaxInstant + 500, DisabledList[MinIndex])
    /\ ~InRange(MaxInstant + 500, DisabledList[MaxIndex])

----------------------------------------------------------------------------
(* C10 *)

\* C10 as stated: when the minimum resolves later than the maximum, the two
\* synthesized ranges share an instant.
C10_InvertedOverlap ==
    (BothSupplied /\ MinInstant > MaxInstant) => SynthesizedOverlap

\* C10 amended: when the minimum resolves later than the maximum, the two
\* synthesized ranges share an instant exactly when the minimum is two
\* seconds or more after the maximum (range ends counted as inside).
C10_OverlapFromTwoSeconds ==
    (BothSupplied /\ MinInstant > MaxInstant) =>
        (SynthesizedOverlap <=> MinInstant >= MaxInstant + 2000)

\* A minimum exactly two seconds after the maximum: the ranges meet in one
\* instant.
C10_Witness ==
    /\ BothSupplied
    /\ MinInstant = MaxInstant + 2000
    /\ SynthesizedOverlap
    /\ DisabledList[MinIndex].end = DisabledList[MaxIndex].start

----------------------------------------------------------------------------
(* C5 *)

\* C5: the attribute is built on the current disabledDates and
\* availableDates arrays with excludeMode "includes", so a day is rendered
\* disabled iff it is inside some disabled range and inside no available
\* range.
C5_DisabledUnlessAvailable ==
    /\ disabledAttribute.key = "disabled"
    /\ disabledAttribute.dates = disabledDates
    /\ disabledAttribute.excludeDates = availableDates
    /\ disabledAttribute.excludeMode = "includes"
    /\ \A d \in ProbeDays :
          RenderedDisabled(disabledAttribute, d)
          <=> (DayInSome(d, DisabledList) /\ ~DayInSome(d, AvailableList))

\* A day before the minimum that is also an available date: inside the
\* synthesized min range, inside an available range, not rendered disabled;
\* and a day inside a user-supplied disabled range that is rendered disabled.
C5_Witness ==
    /\ MinSupplied
    /\ Len(DisabledList) >= MinIndex
    /\ \E d \in Days :
          /\ DayInRange(d, DisabledList[MinIndex])
          /\ DayInSome(d, AvailableList)
          /\ ~RenderedDisabled(disabledAttribute, d)
    /\ \E d \in Days :
          /\ UserCount = 1
          /\ DayInRange(d, DisabledList[1])
          /\ RenderedDisabled(disabledAttribute, d)

----------------------------------------------------------------------------
(* C6 *)

\* The instants a date spec names.
SpecStartInstant(s) ==
    IF IsRangeSpec(s) THEN s.start.day * DayMs + s.start.time[1]
    ELSE s.day * DayMs + s.time[1]

SpecEndInstant(s) ==
    IF IsRangeSpec(s) THEN s.end.day * DayMs + s.end.time[1]
    ELSE s.day * DayMs + s.time[1]

\* C6: availableDates holds one range per spec of the availableDates prop,
\* with the spec's exact start and end instants, and is empty when the prop
\* is absent, whatever the boundary props and the disabledDates prop are.
C6_AvailableExact ==
    IF props.availableDates = null
    THEN AvailableList = <<>>
    ELSE /\ Len(AvailableList) = Len(AvailableProp[1])
         /\ \A i \in 1..Len(AvailableList) :
               AvailableList[i] =
                   [start |-> Some(SpecStartInstant(AvailableProp[1][i])),
                    end |-> Some(SpecEndInstant(AvailableProp[1][i]))]

\* A timed available range that starts and ends inside its days, next to a
\* disabled list with a user-supplied and a synthesized range.
C6_Witness ==
    /\ Len(AvailableList) = 1
    /\ AvailableList[1].start[1] % DayMs # 0
    /\ AvailableList[1].end[1] % DayMs # 86399000
    /\ AvailableList[1].start[1] < AvailableList[1].end[1]
    /\ UserCount = 1 /\ MinSupplied /\ MaxSupplied

----------------------------------------------------------------------------
(* C7 *)

NothingSupplied ==
    /\ props.disabledDates = null
    /\ props.minDate = null /\ props.minDateExact = null
    /\ props.maxDate = null /\ props.maxDateExact = null

\* C7: with disabledDates and the four boundaries omitted, disabledDates
\* and the attribute's dates are empty; and no synthesized range has both
\* ends null, whatever is supplied.
C7_NeverAllTime ==
    /\ NothingSupplied =>
          /\ DisabledList = <<>>
          /\ heap[disabledAttribute.dates] = <<>>
    /\ \A i \in (UserCount + 1)..Len(DisabledList) :
          ~(DisabledList[i].start = null /\ DisabledList[i].end = null)

\* Everything omitted again after the list was recomputed.
C7_Witness ==
    /\ NothingSupplied
    /\ disabledDates # 1
    /\ props.availableDates # null
    /\ heap[disabledAttribute.dates] = <<>>

----------------------------------------------------------------------------
(* C9 *)

\* The arrays of the list props hold what the parent passed and nothing
\* else.
PropsAsPassed ==
    \A q \in {DisabledProp, AvailableProp} : q # null => q[1] \in SpecLists

\* C9: a step that passes no new prop value leaves the content of
\* disabledDates and availableDates as it is (no range of an earlier run is
\* kept: the list holds the user's ranges and at most two more); no step
\* changes the content of an array that stays published; and the arrays of
\* the list props are never changed by a computation.
C9_Recomputation ==
    [][/\ (/\ props' = props
           /\ DisabledProp' = DisabledProp
           /\ AvailableProp' = AvailableProp)
          => /\ heap'[disabledDates'] = heap[disabledDates]
             /\ heap'[availableDates'] = heap[availableDates]
       /\ \A id \in {disabledDates, availableDates} :
            id \in {disabledDates', availableDates'} => heap'[id] = heap[id]
       /\ PropsAsPassed /\ PropsAsPassed'
       /\ Len(DisabledList') <= UserCount' + 2
      ]_vars

\* Both boundaries supplied, and both arrays rebuilt at least twice.
C9_Witness ==
    /\ MinSupplied /\ MaxSupplied /\ UserCount = 1
    /\ disabledDates = 1 /\ availableDates = 3
    /\ props.availableDates # null
    /\ Len(DisabledList) = 3

----------------------------------------------------------------------------
(* C8 *)

\* C8: useBase where no context was provided throws the "Base context
\* missing" error and returns nothing; where createBase provided its
\* context, it returns that context and throws nothing.
C8_UseBase ==
    useResult # null =>
        LET r == useResult[1]
        IN  IF contextKey \in DOMAIN provides[r.scope]
            THEN /\ r.returned = Some(context)
                 /\ r.thrown = null
                 /\ r.scope = "nested"
            ELSE /\ r.returned = null
                 /\ r.thrown = Some(MissingMessage)
                 /\ r.scope = "outside"

\* useBase was called outside the provider and threw.
C8_Witness ==
    /\ useResult # null
    /\ useResult[1].scope = "outside"
    /\ useResult[1].thrown # null
    /\ useResult[1].returned = null

====
